---- MODULE Spec2Model ----
(***************************************************************************)
(* The P2 estimators of trink/p2: Quantile (five markers) and Histogram    *)
(* (b+1 markers), with the interpolation functions of lib.rs.              *)
(*                                                                         *)
(* An f64 is modelled as a pair <<num, den>>: a reduced fraction with      *)
(* den > 0 for a finite value, <<1,0>> for +inf, <<-1,0>> for -inf and     *)
(* <<0,0>> for NaN.  Finite results are kept exact (rounding to nearest    *)
(* is not modelled); a finite result whose magnitude exceeds FMax          *)
(* overflows to an infinity, and infinities and NaN propagate, as in       *)
(* IEEE-754.  FMax stands for f64::MAX on a reduced scale that stays far   *)
(* above every position count.  Arrays keep the code's 0-based indices.    *)
(***************************************************************************)
EXTENDS Integers, FiniteSets, Sequences, TLC

\* ------------------------------------------------------------------ bounds
\* largest finite magnitude of the modelled float format (f64::MAX scaled)
FMax == 100
\* accepted (non-NaN) observations explored per construction / clear
MaxAdds == 8

\* ------------------------------------------------------------- f64 values
NaN == <<0, 0>>
PInf == <<1, 0>>
NInf == <<-1, 0>>
Fin(a) == <<a, 1>>

IsNaN(x) == x = NaN
IsFinite(x) == x[2] # 0

Abs(a) == IF a < 0 THEN -a ELSE a
Sgn(a) == IF a < 0 THEN -1 ELSE IF a > 0 THEN 1 ELSE 0

RECURSIVE GCD(_, _)
GCD(a, b) == IF b = 0 THEN a ELSE GCD(b, a % b)

\* a finite result num/den (den > 0): reduced, or an infinity on overflow
Norm(a, b) ==
  IF Abs(a) > FMax * b
    THEN (IF a > 0 THEN PInf ELSE NInf)
    ELSE LET g == GCD(Abs(a), b) IN <<a \div g, b \div g>>

FNeg(x) == <<-x[1], x[2]>>

FAdd(x, y) ==
  CASE IsNaN(x) \/ IsNaN(y) -> NaN
    [] IsFinite(x) /\ IsFinite(y) -> Norm(x[1] * y[2] + y[1] * x[2], x[2] * y[2])
    [] IsFinite(x) -> y
    [] IsFinite(y) -> x
    [] OTHER -> IF x = y THEN x ELSE NaN

FSub(x, y) == FAdd(x, FNeg(y))

FMul(x, y) ==
  CASE IsNaN(x) \/ IsNaN(y) -> NaN
    [] IsFinite(x) /\ IsFinite(y) -> Norm(x[1] * y[1], x[2] * y[2])
    [] OTHER -> LET s == Sgn(x[1]) * Sgn(y[1])
                IN IF s = 0 THEN NaN ELSE <<s, 0>>

FDiv(x, y) ==
  CASE IsNaN(x) \/ IsNaN(y) -> NaN
    [] IsFinite(x) /\ IsFinite(y) ->
         IF y[1] = 0
           THEN (IF x[1] = 0 THEN NaN ELSE <<Sgn(x[1]), 0>>)
           ELSE Norm(x[1] * y[2] * Sgn(y[1]), x[2] * Abs(y[1]))
    [] IsFinite(x) -> Fin(0)
    [] IsFinite(y) -> <<x[1] * (IF y[1] < 0 THEN -1 ELSE 1), 0>>
    [] OTHER -> NaN

\* x < y ; false when either side is NaN
FLt(x, y) ==
  CASE IsNaN(x) \/ IsNaN(y) -> FALSE
    [] x = y -> FALSE
    [] IsFinite(x) /\ IsFinite(y) -> x[1] * y[2] < y[1] * x[2]
    [] OTHER -> x = NInf \/ y = PInf

\* x <= y ; false when either side is NaN
FLe(x, y) == ~IsNaN(x) /\ ~IsNaN(y) /\ (x = y \/ FLt(x, y))

\* `as usize` of an f64: truncation, NaN and negatives give 0
\* (an infinite count is never produced: counts stay far below FMax)
ToUsize(x) ==
  CASE IsNaN(x) -> 0
    [] IsFinite(x) -> IF x[1] < 0 THEN 0 ELSE x[1] \div x[2]

\* ------------------------------------------------------------ parameters
QUANTILE_MARKERS == 5
\* p_quantile values offered to Quantile::new (exact in f32 and f64)
Ps == {<<1, 8>>, <<1, 2>>, <<3, 4>>}
\* bucket counts offered to Histogram::new
Bs == {4}
\* observations offered to add: NaN, an infinity, the most negative finite
\* value (its distance to any positive value overflows) and small values
Inputs == {NaN, PInf, Fin(-FMax), Fin(0), Fin(1), Fin(2)}

\* ---------------------------------------------------------------- lib.rs
parabolic(i, d, q, n) ==
  FAdd(q[i],
       FMul(FDiv(d, FSub(n[i + 1], n[i - 1])),
            FAdd(FDiv(FMul(FAdd(FSub(n[i], n[i - 1]), d), FSub(q[i + 1], q[i])),
                      FSub(n[i + 1], n[i])),
                 FDiv(FMul(FSub(FSub(n[i + 1], n[i]), d), FSub(q[i], q[i - 1])),
                      FSub(n[i], n[i - 1])))))

linear(i, d, q, n) ==
  LET j == ToUsize(FAdd(Fin(i), d))
  IN FAdd(q[i], FDiv(FMul(d, FSub(q[j], q[i])), FSub(n[j], n[i])))

\* ------------------------------------------------------ shared algorithms
\* slice::sort_by(|a, b| a.partial_cmp(b).unwrap_or(Equal)) on values that
\* are never NaN: the ascending arrangement of the m stored values
RECURSIVE SortFrom(_, _, _)
SortFrom(f, i, m) ==
  IF i >= m - 1 THEN f
  ELSE LET j == CHOOSE a \in i..(m - 1) : \A c \in i..(m - 1) : ~FLt(f[c], f[a])
           g == [f EXCEPT ![i] = f[j], ![j] = f[i]]
       IN SortFrom(g, i + 1, m)

sort_by(f, m) == SortFrom(f, 0, m)

\* variant of Increment: the loop starts one marker too far (k + 1..m)
IncrementFromNext(n, k, m) ==
  [i \in 0..(m - 1) |-> IF i > k THEN FAdd(n[i], Fin(1)) ELSE n[i]]

\* n[i] += 1.0 for i in k..m
Increment(n, k, m) ==
  [i \in 0..(m - 1) |-> IF i >= k THEN FAdd(n[i], Fin(1)) ELSE n[i]]

\* variant of Adjust: the parabolic candidate is committed without the
\* q[i-1] < q1 < q[i+1] test, so the linear fallback is never taken
AdjustNoFallback(i, n1i, q, n) ==
  LET d0 == FSub(n1i, n[i])
      up == FLe(Fin(1), d0) /\ FLt(Fin(1), FSub(n[i + 1], n[i]))
      down == FLe(d0, Fin(-1)) /\ FLt(FSub(n[i - 1], n[i]), Fin(-1))
  IN IF up \/ down
       THEN LET d == IF FLt(Fin(0), d0) THEN Fin(1) ELSE Fin(-1)
            IN [q |-> [q EXCEPT ![i] = parabolic(i, d, q, n)],
                n |-> [n EXCEPT ![i] = FAdd(n[i], d)],
                d |-> d[1]]
       ELSE [q |-> q, n |-> n, d |-> 0]

\* variant of Adjust: the downward move lacks the test on the left
\* neighbour's position (n[i-1] - n[i] < -1)
AdjustNoLeftGuard(i, n1i, q, n) ==
  LET d0 == FSub(n1i, n[i])
      up == FLe(Fin(1), d0) /\ FLt(Fin(1), FSub(n[i + 1], n[i]))
      down == FLe(d0, Fin(-1))
  IN IF up \/ down
       THEN LET d == IF FLt(Fin(0), d0) THEN Fin(1) ELSE Fin(-1)
                q1 == parabolic(i, d, q, n)
                qi == IF FLt(q[i - 1], q1) /\ FLt(q1, q[i + 1])
                        THEN q1
                        ELSE linear(i, d, q, n)
            IN [q |-> [q EXCEPT ![i] = qi],
                n |-> [n EXCEPT ![i] = FAdd(n[i], d)],
                d |-> d[1]]
       ELSE [q |-> q, n |-> n, d |-> 0]

\* the body of the relocation loop for marker i with desired position n1i:
\* the pair <<q, n>> after it and the displacement applied (0 when none)
Adjust(i, n1i, q, n) ==
  LET d0 == FSub(n1i, n[i])
      up == FLe(Fin(1), d0) /\ FLt(Fin(1), FSub(n[i + 1], n[i]))
      down == FLe(d0, Fin(-1)) /\ FLt(FSub(n[i - 1], n[i]), Fin(-1))
  IN IF up \/ down
       THEN LET d == IF FLt(Fin(0), d0) THEN Fin(1) ELSE Fin(-1)
                q1 == parabolic(i, d, q, n)
                qi == IF FLt(q[i - 1], q1) /\ FLt(q1, q[i + 1])
                        THEN q1
                        ELSE linear(i, d, q, n)
            IN [q |-> [q EXCEPT ![i] = qi],
                n |-> [n EXCEPT ![i] = FAdd(n[i], d)],
                d |-> d[1]]
       ELSE [q |-> q, n |-> n, d |-> 0]

\* ----------------------------------------------------------- quantile.rs
\* variant of QuantileClear: the desired positions n1 are not reset
QuantileClearKeepsN1(s) ==
  [s EXCEPT
     !.q = [i \in 0..(QUANTILE_MARKERS - 1) |-> Fin(0)],
     !.n = [i \in 0..(QUANTILE_MARKERS - 1) |-> Fin(i + 1)],
     !.cnt = QUANTILE_MARKERS]

QuantileClear(s) ==
  LET pf == s.p
  IN [s EXCEPT
        !.q = [i \in 0..(QUANTILE_MARKERS - 1) |-> Fin(0)],
        !.n = [i \in 0..(QUANTILE_MARKERS - 1) |-> Fin(i + 1)],
        !.n1 = [i \in 0..(QUANTILE_MARKERS - 1) |->
                  CASE i = 0 -> Fin(1)
                    [] i = 1 -> FAdd(Fin(1), FMul(Fin(2), pf))
                    [] i = 2 -> FAdd(Fin(1), FMul(Fin(4), pf))
                    [] i = 3 -> FAdd(Fin(3), FMul(Fin(2), pf))
                    [] i = 4 -> Fin(5)],
        !.cnt = QUANTILE_MARKERS]

QuantileNew(pq) ==
  QuantileClear([kind |-> "Quantile",
                 q |-> [i \in 0..(QUANTILE_MARKERS - 1) |-> Fin(0)],
                 n |-> [i \in 0..(QUANTILE_MARKERS - 1) |-> Fin(0)],
                 n1 |-> [i \in 0..(QUANTILE_MARKERS - 1) |-> Fin(0)],
                 p |-> pq, b |-> 0, cnt |-> 0])

\* variant of QuantileLocate: a value above the last marker is counted in
\* the last bucket but does not replace the maximum
QuantileLocateKeepsMax(q, x) ==
  IF FLt(x, q[0]) THEN <<1, [q EXCEPT ![0] = x]>>
  ELSE IF FLe(q[0], x) /\ FLt(x, q[1]) THEN <<1, q>>
  ELSE IF FLe(q[1], x) /\ FLt(x, q[2]) THEN <<2, q>>
  ELSE IF FLe(q[2], x) /\ FLt(x, q[3]) THEN <<3, q>>
  ELSE IF FLe(q[3], x) /\ FLe(x, q[4]) THEN <<4, q>>
  ELSE IF FLt(q[4], x) THEN <<4, q>>
  ELSE <<0, q>>

\* bucket location of Quantile::add: <<k, q>> with q after a min/max extension
QuantileLocate(q, x) ==
  IF FLt(x, q[0]) THEN <<1, [q EXCEPT ![0] = x]>>
  ELSE IF FLe(q[0], x) /\ FLt(x, q[1]) THEN <<1, q>>
  ELSE IF FLe(q[1], x) /\ FLt(x, q[2]) THEN <<2, q>>
  ELSE IF FLe(q[2], x) /\ FLt(x, q[3]) THEN <<3, q>>
  ELSE IF FLe(q[3], x) /\ FLe(x, q[4]) THEN <<4, q>>
  ELSE IF FLt(q[4], x) THEN <<4, [q EXCEPT ![4] = x]>>
  ELSE <<0, q>>

\* the relocation loop: for i in 1..QUANTILE_MARKERS - 1
RECURSIVE QuantileRelocate(_, _, _, _, _)
QuantileRelocate(i, q, n, n1, moved) ==
  IF i >= QUANTILE_MARKERS - 1 THEN [q |-> q, n |-> n, moved |-> moved]
  ELSE LET a == Adjust(i, n1[i], q, n)
       IN QuantileRelocate(i + 1, a.q, a.n, n1, [moved EXCEPT ![i] = a.d])

NoMove(m) == [i \in 0..(m - 1) |-> 0]

\* variant of Quantile::add: NaN is rejected only once the estimator is ready
QuantileAddNaNOnlyWhenReady(s, x) ==
  IF IsNaN(x) /\ s.cnt = 0
    THEN [st |-> s, ret |-> IF s.cnt = 0 THEN s.q[2] ELSE x,
          path |-> "nan", k |-> 0, moved |-> NoMove(QUANTILE_MARKERS)]
  ELSE IF s.cnt > 0
    THEN LET c == s.cnt - 1
             qf == [s.q EXCEPT ![c] = x]
             qs == IF c = 0 THEN sort_by(qf, QUANTILE_MARKERS) ELSE qf
         IN [st |-> [s EXCEPT !.cnt = c, !.q = qs],
             ret |-> IF c = 0 THEN qs[2] ELSE NaN,
             path |-> "fill", k |-> 0, moved |-> NoMove(QUANTILE_MARKERS)]
  ELSE LET loc == QuantileLocate(s.q, x)
           k == loc[1]
           nk == Increment(s.n, k, QUANTILE_MARKERS)
           pf == s.p
           n1k == [s.n1 EXCEPT
                     ![1] = FAdd(s.n1[1], FDiv(pf, Fin(2))),
                     ![2] = FAdd(s.n1[2], pf),
                     ![3] = FAdd(s.n1[3], FDiv(FAdd(Fin(1), pf), Fin(2))),
                     ![4] = FAdd(s.n1[4], Fin(1))]
           r == QuantileRelocate(1, loc[2], nk, n1k, NoMove(QUANTILE_MARKERS))
       IN [st |-> [s EXCEPT !.q = r.q, !.n = r.n, !.n1 = n1k],
           ret |-> r.q[2], path |-> "steady", k |-> k, moved |-> r.moved]

\* Quantile::add: the state after the call, with the returned value and the
\* path taken (ret, path, k, moved describe the call, not the object)
QuantileAdd(s, x) ==
  IF IsNaN(x)
    THEN [st |-> s, ret |-> IF s.cnt = 0 THEN s.q[2] ELSE x,
          path |-> "nan", k |-> 0, moved |-> NoMove(QUANTILE_MARKERS)]
  ELSE IF s.cnt > 0
    THEN LET c == s.cnt - 1
             qf == [s.q EXCEPT ![c] = x]
             qs == IF c = 0 THEN sort_by(qf, QUANTILE_MARKERS) ELSE qf
         IN [st |-> [s EXCEPT !.cnt = c, !.q = qs],
             ret |-> IF c = 0 THEN qs[2] ELSE NaN,
             path |-> "fill", k |-> 0, moved |-> NoMove(QUANTILE_MARKERS)]
  ELSE LET loc == QuantileLocate(s.q, x)
           k == loc[1]
           nk == Increment(s.n, k, QUANTILE_MARKERS)
           pf == s.p
           n1k == [s.n1 EXCEPT
                     ![1] = FAdd(s.n1[1], FDiv(pf, Fin(2))),
                     ![2] = FAdd(s.n1[2], pf),
                     ![3] = FAdd(s.n1[3], FDiv(FAdd(Fin(1), pf), Fin(2))),
                     ![4] = FAdd(s.n1[4], Fin(1))]
           r == QuantileRelocate(1, loc[2], nk, n1k, NoMove(QUANTILE_MARKERS))
       IN [st |-> [s EXCEPT !.q = r.q, !.n = r.n, !.n1 = n1k],
           ret |-> r.q[2], path |-> "steady", k |-> k, moved |-> r.moved]

\* results of the queries: a value, or a panic (index out of bounds, or the
\* usize subtraction marker - 1 overflowing: a panic in either build)
Ok(v) == <<"ok", v>>
Panic == <<"panic">>

QuantileEstimate(s, marker) ==
  IF s.cnt # 0 THEN Ok(NaN)
  ELSE IF marker >= 1 /\ marker - 1 < QUANTILE_MARKERS THEN Ok(s.q[marker - 1])
  ELSE Panic

QuantileCount(s, marker) ==
  IF s.cnt # 0 THEN Ok(0)
  ELSE IF marker >= 1 /\ marker - 1 < QUANTILE_MARKERS
         THEN Ok(ToUsize(s.n[marker - 1]))
  ELSE Panic

\* ---------------------------------------------------------- histogram.rs
HistogramClear(s) ==
  LET c == s.b + 1
  IN [s EXCEPT
        !.cnt = c,
        !.q = [i \in DOMAIN s.q |-> IF i < c THEN Fin(0) ELSE s.q[i]],
        !.n = [i \in DOMAIN s.n |-> IF i < c THEN Fin(i + 1) ELSE s.n[i]]]

HistogramNew(buckets) ==
  HistogramClear([kind |-> "Histogram",
                  q |-> [i \in 0..buckets |-> Fin(0)],
                  n |-> [i \in 0..buckets |-> Fin(0)],
                  n1 |-> <<>>, p |-> Fin(0), b |-> buckets, cnt |-> 0])

\* the scan for i in 0..b - 1: the first i at or after `from` with
\* q[i] <= x < q[i + 1] gives k = i + 1; 0 when there is none
RECURSIVE HistogramScan(_, _, _, _)
HistogramScan(q, x, i, b) ==
  IF i >= b - 1 THEN 0
  ELSE IF FLe(q[i], x) /\ FLt(x, q[i + 1]) THEN i + 1
  ELSE HistogramScan(q, x, i + 1, b)

\* bucket location of Histogram::add: <<k, q>> with q after a min/max extension
HistogramLocate(q, x, b) ==
  IF FLt(x, q[0]) THEN <<1, [q EXCEPT ![0] = x]>>
  ELSE LET k == HistogramScan(q, x, 0, b)
       IN IF k # 0 THEN <<k, q>>
          ELSE IF FLe(q[b - 1], x) /\ FLe(x, q[b]) THEN <<b, q>>
          ELSE IF FLt(q[b], x) THEN <<b, [q EXCEPT ![b] = x]>>
          ELSE <<0, q>>

\* the relocation loop: for i in 1..b, the desired position taken from n[b]
RECURSIVE HistogramRelocate(_, _, _, _, _)
HistogramRelocate(i, q, n, b, moved) ==
  IF i >= b THEN [q |-> q, n |-> n, moved |-> moved]
  ELSE LET n1 == FAdd(Fin(1), FDiv(FMul(Fin(i), FSub(n[b], Fin(1))), Fin(b)))
           a == Adjust(i, n1, q, n)
       IN HistogramRelocate(i + 1, a.q, a.n, b, [moved EXCEPT ![i] = a.d])

\* variant of Histogram::add: NaN is rejected only once the estimator is ready
HistogramAddNaNOnlyWhenReady(s, x) ==
  IF IsNaN(x) /\ s.cnt = 0
    THEN [st |-> s, ret |-> <<>>,
          path |-> "nan", k |-> 0, moved |-> NoMove(s.b + 1)]
  ELSE IF s.cnt > 0
    THEN LET c == s.cnt - 1
             qf == [s.q EXCEPT ![c] = x]
             qs == IF c = 0 THEN sort_by(qf, s.b + 1) ELSE qf
         IN [st |-> [s EXCEPT !.cnt = c, !.q = qs], ret |-> <<>>,
             path |-> "fill", k |-> 0, moved |-> NoMove(s.b + 1)]
  ELSE LET loc == HistogramLocate(s.q, x, s.b)
           k == loc[1]
           nk == Increment(s.n, k, s.b + 1)
           r == HistogramRelocate(1, loc[2], nk, s.b, NoMove(s.b + 1))
       IN [st |-> [s EXCEPT !.q = r.q, !.n = r.n], ret |-> <<>>,
           path |-> "steady", k |-> k, moved |-> r.moved]

\* Histogram::add (no return value)
HistogramAdd(s, x) ==
  IF IsNaN(x)
    THEN [st |-> s, ret |-> <<>>,
          path |-> "nan", k |-> 0, moved |-> NoMove(s.b + 1)]
  ELSE IF s.cnt > 0
    THEN LET c == s.cnt - 1
             qf == [s.q EXCEPT ![c] = x]
             qs == IF c = 0 THEN sort_by(qf, s.b + 1) ELSE qf
         IN [st |-> [s EXCEPT !.cnt = c, !.q = qs], ret |-> <<>>,
             path |-> "fill", k |-> 0, moved |-> NoMove(s.b + 1)]
  ELSE LET loc == HistogramLocate(s.q, x, s.b)
           k == loc[1]
           nk == Increment(s.n, k, s.b + 1)
           r == HistogramRelocate(1, loc[2], nk, s.b, NoMove(s.b + 1))
       IN [st |-> [s EXCEPT !.q = r.q, !.n = r.n], ret |-> <<>>,
           path |-> "steady", k |-> k, moved |-> r.moved]

HistogramEstimate(s, marker) ==
  IF s.cnt # 0 THEN Ok(NaN)
  ELSE IF marker >= 1 /\ marker - 1 < s.b + 1 THEN Ok(s.q[marker - 1])
  ELSE Panic

HistogramCount(s, marker) ==
  IF s.cnt # 0 THEN Ok(0)
  ELSE IF marker >= 1 /\ marker - 1 < s.b + 1
         THEN Ok(ToUsize(s.n[marker - 1]))
  ELSE Panic

\* ---------------------------------------------------------- state machine
\* kind, q, n, n1, p, b, cnt: the fields of the one estimator under test
\* obs:  bag of the non-NaN observations added since construction / clear
\* nobs: their number
\* call: the last call made on the estimator and what it did
VARIABLES kind, q, n, n1, p, b, cnt, obs, nobs, call

fields == <<kind, q, n, n1, p, b, cnt>>
vars == <<kind, q, n, n1, p, b, cnt, obs, nobs, call>>

self == [kind |-> kind, q |-> q, n |-> n, n1 |-> n1, p |-> p, b |-> b, cnt |-> cnt]

\* number of markers of the estimator
M == IF kind = "Quantile" THEN QUANTILE_MARKERS ELSE b + 1

NoObs == [v \in Inputs \ {NaN} |-> 0]

Store(s) ==
  /\ kind' = s.kind
  /\ q' = s.q
  /\ n' = s.n
  /\ n1' = s.n1
  /\ p' = s.p
  /\ b' = s.b
  /\ cnt' = s.cnt

Init ==
  /\ \E s \in {QuantileNew(pq) : pq \in Ps} \cup {HistogramNew(bk) : bk \in Bs} :
        /\ kind = s.kind
        /\ q = s.q
        /\ n = s.n
        /\ n1 = s.n1
        /\ p = s.p
        /\ b = s.b
        /\ cnt = s.cnt
  /\ obs = NoObs
  /\ nobs = 0
  /\ call = [op |-> "new", x |-> NaN, ret |-> <<>>, path |-> "", k |-> 0,
             moved |-> <<>>]

Record(x, r) ==
  /\ call' = [op |-> "add", x |-> x, ret |-> r.ret, path |-> r.path,
              k |-> r.k, moved |-> r.moved]
  /\ IF IsNaN(x)
       THEN UNCHANGED <<obs, nobs>>
       ELSE /\ obs' = [obs EXCEPT ![x] = @ + 1]
            /\ nobs' = nobs + 1

DoQuantileAdd(x) ==
  /\ kind = "Quantile"
  /\ IsNaN(x) \/ nobs < MaxAdds
  /\ LET r == QuantileAdd(self, x)
     IN Store(r.st) /\ Record(x, r)

DoHistogramAdd(x) ==
  /\ kind = "Histogram"
  /\ IsNaN(x) \/ nobs < MaxAdds
  /\ LET r == HistogramAdd(self, x)
     IN Store(r.st) /\ Record(x, r)

Cleared ==
  /\ obs' = NoObs
  /\ nobs' = 0
  /\ call' = [op |-> "clear", x |-> NaN, ret |-> <<>>,
              path |-> IF cnt = 0 THEN "steady" ELSE "fill", k |-> 0,
              moved |-> <<>>]

DoQuantileClear ==
  /\ kind = "Quantile"
  /\ Store(QuantileClear(self))
  /\ Cleared

DoHistogramClear ==
  /\ kind = "Histogram"
  /\ Store(HistogramClear(self))
  /\ Cleared

Next ==
  \/ \E x \in Inputs : DoQuantileAdd(x)
  \/ \E x \in Inputs : DoHistogramAdd(x)
  \/ DoQuantileClear
  \/ DoHistogramClear

Spec == Init /\ [][Next]_vars

\* ------------------------------------------------------------ properties
Estimate(marker) ==
  IF kind = "Quantile" THEN QuantileEstimate(self, marker)
  ELSE HistogramEstimate(self, marker)

Count(marker) ==
  IF kind = "Quantile" THEN QuantileCount(self, marker)
  ELSE HistogramCount(self, marker)

Fresh == IF kind = "Quantile" THEN QuantileNew(p) ELSE HistogramNew(b)

Seen == {v \in DOMAIN obs : obs[v] > 0}

RECURSIVE Total(_)
Total(S) ==
  IF S = {} THEN 0
  ELSE LET v == CHOOSE w \in S : TRUE IN obs[v] + Total(S \ {v})

\* number of accepted observations less than or equal to v
CountLe(v) == Total({w \in Seen : FLe(w, v)})

MinObs == CHOOSE v \in Seen : \A w \in Seen : FLe(v, w)
MaxObs == CHOOSE v \in Seen : \A w \in Seen : FLe(w, v)

\* every accepted observation is finite
FiniteObs == \A v \in Seen : IsFinite(v)

\* every accepted observation is finite and at most half the largest finite
\* magnitude, so that no difference of two marker values overflows
SafeObs == \A v \in Seen : IsFinite(v) /\ 2 * Abs(v[1]) <= FMax * v[2]

Sorted == \A i \in 0..(M - 2) : FLe(q[i], q[i + 1])

C2_Positions ==
  /\ \A i \in 0..(M - 2) : FLt(n[i], n[i + 1])
  /\ n[0] = Fin(1)
  /\ (call.op = "add" /\ call.path = "steady") => call.k # 0

\* C3: once ready, count of the last marker is the number of non-NaN
\* observations added since construction or the last clear.
C3_LastCountIsTotal == cnt = 0 => Count(M) = Ok(nobs)

C3_Witness == cnt = 0 /\ nobs > M /\ call.op = "add" /\ call.k = M - 1

\* C4: no add call decreases any position count n[i].
C4_CountsNeverDecrease ==
  [][call'.op = "add" => \A i \in DOMAIN n : FLe(n[i], n'[i])]_vars

C4_Witness ==
  /\ call.op = "add" /\ call.path = "steady"
  /\ \E i \in DOMAIN call.moved : call.moved[i] = -1

\* C5: in every state estimate and count fail for the markers 0 and m + 1.
C5_InvalidMarkerFails ==
  \A marker \in {0, M + 1} : Estimate(marker) = Panic /\ Count(marker) = Panic

C7_MinMaxExact == cnt = 0 => (q[0] = MinObs /\ q[M - 1] = MaxObs)

\* C8: with fewer than m non-NaN observations the estimator is not ready,
\* estimate gives NaN and count gives 0 for every valid marker; with m or
\* more it is ready.
C8_NotReadyContract ==
  /\ nobs < M => /\ cnt # 0
                 /\ \A marker \in 1..M :
                       Estimate(marker) = Ok(NaN) /\ Count(marker) = Ok(0)
  /\ nobs >= M => cnt = 0

C8_Witness == nobs = M - 1 /\ call.op = "add" /\ cnt = 1

\* C9: add(NaN) changes no field of the estimator.
C9_NaNNeutral ==
  [][(call'.op = "add" /\ IsNaN(call'.x)) => UNCHANGED fields]_vars

C9_Witness == call.op = "add" /\ IsNaN(call.x) /\ cnt = 0 /\ nobs > M

\* C10: clear leaves exactly the state of a freshly constructed estimator
\* with the same parameter (add is a function of that state, so every later
\* estimate and count agrees with the fresh estimator's).
C10_ClearIsFresh == call.op = "clear" => self = Fresh

C10_Witness == call.op = "clear" /\ call.path = "steady"

====
